---- MODULE Spec2Model ----
(***************************************************************************)
(* Model of src/app.py: the consent-gated voice synthesis pipeline.        *)
(*                                                                         *)
(* State: the server process, the files it keeps (upload directory,        *)
(* consent ledger, generated artifacts), the shared synthesis engine and,  *)
(* for every request, the position of its handler.  Strings the code       *)
(* inspects character by character (file names, texts) are sequences of    *)
(* one-character strings; the em dash of the disclosure is the single      *)
(* token "emdash".                                                         *)
(***************************************************************************)
EXTENDS Integers, Sequences, FiniteSets, TLC

\* ------------------------------------------------------------------ bounds
MaxRequests == 2

\* ------------------------------------------------------- program constants
MaxTextLen == 500

\* the host server's worker threads: each handles one request at a time, and
\* two are enough for a handler to overlap another
Workers == {"w1", "w2"}

None == "None"

ALLOWED_EXTENSIONS == { <<"w","a","v">>, <<"m","p","3">> }

\* str(e) of line 164: what preprocess_wav, embed_utterance, save_to_file or
\* runAndWait raised; the same error (an OSError of the file system, say) can
\* come from any of them
Exceptions == {"RuntimeError", "OSError"}

VARIABLES
    threaded,      \* whether the host server runs handlers concurrently (app.run's
                   \* server does; a single synchronous worker does not)
    proc,          \* "starting" | "serving" | "aborted_encoder" | "aborted_engine"
    engineInits,   \* pyttsx3.init() calls of the current process
    arrived,       \* requests received so far; they are numbered 1, 2, ...
    answeredBefore,\* requests answered by earlier runs of the process
    pc,            \* per worker: position in its handler
    id,            \* per worker: number of the request it handles (0: none yet)
    req,           \* per worker: what was submitted
    resp,          \* per worker: what the caller receives
    trace,         \* per worker: the side-effecting steps of its request, in order
    write_header,  \* per worker: log_consent's local write_header (FALSE outside it)
    uploads,       \* upload directory: set of [name, audio, req]
    ledgerExists,  \* Path(CONSENT_LOG).exists()
    ledger,        \* rows of consent_log.csv, in file order
    engineQueue,   \* commands queued in tts_engine by save_to_file
    synthLog,      \* every save_to_file call made: set of [req, text, name]
    generated,     \* generated directory: set of [name, content, req]
    wrote          \* numbers of the requests whose command produced an artifact

vars == << threaded, proc, engineInits, arrived, answeredBefore, pc, id, req, resp,
           trace, write_header, uploads, ledgerExists, ledger, engineQueue,
           synthLog, generated, wrote >>

\* ------------------------------------------------------------ pure helpers

Lower(c) ==
    CASE c = "A" -> "a"
      [] c = "W" -> "w"
      [] c = "V" -> "v"
      [] c = "X" -> "x"
      [] c = "M" -> "m"
      [] c = "P" -> "p"
      [] OTHER -> c

LowerSeq(s) == [i \in 1..Len(s) |-> Lower(s[i])]

\* index of the last "." of s, 0 when there is none
LastDot(s) ==
    LET dots == { i \in 1..Len(s) : s[i] = "." }
    IN  IF dots = {} THEN 0 ELSE CHOOSE i \in dots : \A j \in dots : j <= i

\* filename.rsplit(".", 1)[1]
Extension(s) == SubSeq(s, LastDot(s) + 1, Len(s))

allowed_file(filename) ==
    /\ LastDot(filename) # 0
    /\ LowerSeq(Extension(filename)) \in ALLOWED_EXTENSIONS

\* werkzeug.utils.secure_filename, on the characters of the model -----------
ReplaceSep(s) == [i \in 1..Len(s) |-> IF s[i] = "/" THEN " " ELSE s[i]]

RECURSIVE SplitFrom(_, _, _)
SplitFrom(s, i, cur) ==
    LET flush == IF cur = <<>> THEN <<>> ELSE <<cur>>
    IN  IF i > Len(s) THEN flush
        ELSE IF s[i] = " " THEN flush \o SplitFrom(s, i + 1, <<>>)
        ELSE SplitFrom(s, i + 1, Append(cur, s[i]))

RECURSIVE JoinWith(_, _)
JoinWith(ws, sep) ==
    IF ws = <<>> THEN <<>>
    ELSE IF Len(ws) = 1 THEN ws[1]
    ELSE ws[1] \o <<sep>> \o JoinWith(Tail(ws), sep)

SafeChars == { "a", "b", "w", "v", "x", "m", "p", "3", "A", "W", "V", "X", "M", "P",
               "_", ".", "-" }

KeepSafe(s) == SelectSeq(s, LAMBDA c : c \in SafeChars)

RECURSIVE StripLeft(_)
StripLeft(s) ==
    IF s # <<>> /\ s[1] \in {".", "_"} THEN StripLeft(Tail(s)) ELSE s

RECURSIVE StripRight(_)
StripRight(s) ==
    IF s # <<>> /\ s[Len(s)] \in {".", "_"}
    THEN StripRight(SubSeq(s, 1, Len(s) - 1))
    ELSE s

secure_filename(filename) ==
    StripRight(StripLeft(KeepSafe(JoinWith(SplitFrom(ReplaceSep(filename), 1, <<>>), "_"))))

\* "SYNTHETIC VOICE - GENERATED. "
Marker ==
    << "S","Y","N","T","H","E","T","I","C"," ","V","O","I","C","E"," ",
       "emdash"," ","G","E","N","E","R","A","T","E","D","."," " >>

prepend_marker_Dropped(text) == text

prepend_marker(text) == Marker \o text

SynthSuffix == << "_","s","y","n","t","h",".","w","a","v" >>

output_name_Fixed(filename) == <<"o","u","t">> \o SynthSuffix

\* os.path.basename(os.path.join(GENERATED_FOLDER, f"{filename}_synth.wav"))
output_name(filename) == filename \o SynthSuffix

\* csv.writer writes None as the empty field
CsvField(v) == IF v = None THEN "" ELSE v

Header ==
    [ kind |-> "header", requester_email |-> "requester_email",
      speaker_name |-> "speaker_name", uploaded_filename |-> <<>>,
      client_ip |-> "client_ip", req |-> 0 ]

\* the row of request number n, submitted as q and saved under filename
Row(n, q, filename) ==
    [ kind |-> "row", requester_email |-> CsvField(q.requester_email),
      speaker_name |-> CsvField(q.speaker_name), uploaded_filename |-> filename,
      client_ip |-> q.remote_addr, req |-> n ]

\* --------------------------------------------------------------- the inputs

Text(n) == [i \in 1..n |-> "x"]

Valid ==
    [ method |-> "POST", hasFile |-> TRUE, filename |-> <<"a",".","W","A","V">>,
      audio |-> "good", text |-> <<"H","i">>, consent |-> "yes",
      not_public |-> "yes", speaker_name |-> "Ann", requester_email |-> "op@x",
      remote_addr |-> "10.0.0.1" ]

Samples ==
    { Valid,
      [Valid EXCEPT !.hasFile = FALSE, !.text = <<>>],
      [Valid EXCEPT !.filename = <<>>],
      [Valid EXCEPT !.filename = <<"a",".","W","A","V","X">>, !.not_public = "no"],
      [Valid EXCEPT !.text = <<>>, !.consent = None],
      [Valid EXCEPT !.text = Text(MaxTextLen + 1), !.not_public = None],
      [Valid EXCEPT !.consent = None],
      [Valid EXCEPT !.not_public = "no"],
      [Valid EXCEPT !.consent = "on", !.not_public = None],
      [Valid EXCEPT !.filename = <<".",".","/","a",".","W","A","V">>,
                    !.text = Text(MaxTextLen), !.speaker_name = "Bob",
                    !.requester_email = ""],
      [Valid EXCEPT !.audio = "bad", !.text = <<"Y","o">>, !.speaker_name = None],
      [Valid EXCEPT !.method = "GET"],
      [Valid EXCEPT !.method = "DOWNLOAD", !.filename = output_name(<<"a",".","W","A","V">>)] }

NoReq == [Valid EXCEPT !.method = "none"]

NoResp == [ kind |-> "none", flashes |-> <<>>, generated_file |-> <<>> ]

\* ------------------------------------------------------------------- Init

Init ==
    /\ threaded \in BOOLEAN
    /\ proc = "starting"
    /\ engineInits = 0
    /\ arrived = 0
    /\ answeredBefore = 0
    /\ pc = [w \in Workers |-> "idle"]
    /\ id = [w \in Workers |-> 0]
    /\ req = [w \in Workers |-> NoReq]
    /\ resp = [w \in Workers |-> NoResp]
    /\ trace = [w \in Workers |-> <<>>]
    /\ write_header = [w \in Workers |-> FALSE]
    /\ uploads = {}
    /\ ledgerExists = FALSE
    /\ ledger = <<>>
    /\ engineQueue = <<>>
    /\ synthLog = {}
    /\ generated = {}
    /\ wrote = {}

\* requests handled one at a time
InitSeq == Init /\ threaded = FALSE

\* -------------------------------------------------------- process startup

procVars == << proc, engineInits, answeredBefore >>
reqVars == << arrived, pc, id, req, resp, trace, write_header >>
fileVars == << uploads, ledgerExists, ledger, generated, wrote >>
engineVars == << engineQueue, synthLog >>

\* module level, lines 50-60: both models load and the server starts
StartupOK ==
    /\ proc = "starting"
    /\ proc' = "serving"
    /\ engineInits' = engineInits + 1
    /\ UNCHANGED << threaded, answeredBefore, reqVars, fileVars, engineVars >>

\* VoiceEncoder() raises: printed and re-raised, the import fails
StartupFailEncoder ==
    /\ proc = "starting"
    /\ proc' = "aborted_encoder"
    /\ UNCHANGED << threaded, engineInits, answeredBefore, reqVars, fileVars, engineVars >>

StartupFailEngine_ServesAnyway ==
    /\ proc = "starting"
    /\ proc' = "serving"
    /\ UNCHANGED << threaded, engineInits, answeredBefore, reqVars, fileVars, engineVars >>

\* pyttsx3.init() raises: nothing catches it, the import fails
StartupFailEngine ==
    /\ proc = "starting"
    /\ proc' = "aborted_engine"
    /\ UNCHANGED << threaded, engineInits, answeredBefore, reqVars, fileVars, engineVars >>

InFlight(w) == pc[w] \notin {"idle", "done"}

\* the operator starts the program again; the files stay, the engine is new
Restart ==
    /\ proc \in {"serving", "aborted_encoder", "aborted_engine"}
    /\ \A w \in Workers : ~InFlight(w)
    /\ arrived < MaxRequests
    /\ proc' = "starting"
    /\ engineInits' = 0
    /\ engineQueue' = <<>>
    /\ answeredBefore' = arrived
    /\ UNCHANGED << threaded, reqVars, fileVars, synthLog >>

\* ------------------------------------------------------- request handlers

\* worker w is free to take the next request; the workers are alike, so of
\* two free workers the one that has been free longer takes it (w1 first)
CanBegin(w) ==
    /\ proc = "serving"
    /\ ~InFlight(w)
    /\ arrived < MaxRequests
    /\ \A o \in Workers \ {w} :
           InFlight(o) \/ id[w] < id[o] \/ (id[w] = id[o] /\ w = "w1")
    /\ threaded \/ \A o \in Workers : ~InFlight(o)

\* worker w takes request number arrived + 1, submitted as q
Take(w, q) ==
    /\ arrived' = arrived + 1
    /\ id' = [id EXCEPT ![w] = arrived + 1]
    /\ req' = [req EXCEPT ![w] = q]
    /\ trace' = [trace EXCEPT ![w] = <<>>]

\* the message of the first failed check of lines 125-146, "OK" when all pass
Validate_NoConsentCheck(q) ==
    IF ~q.hasFile THEN "No file part"
    ELSE IF q.filename = <<>> THEN "No selected file"
    ELSE IF ~allowed_file(q.filename) THEN "Invalid file type. Only wav/mp3 allowed."
    ELSE IF Len(q.text) = 0 \/ Len(q.text) > MaxTextLen
         THEN "Text is required and must be <= 500 chars."
    ELSE IF q.not_public # "yes" THEN "Cannot process public figure voices."
    ELSE "OK"

Validate_PublicBeforeConsent(q) ==
    IF ~q.hasFile THEN "No file part"
    ELSE IF q.filename = <<>> THEN "No selected file"
    ELSE IF ~allowed_file(q.filename) THEN "Invalid file type. Only wav/mp3 allowed."
    ELSE IF Len(q.text) = 0 \/ Len(q.text) > MaxTextLen
         THEN "Text is required and must be <= 500 chars."
    ELSE IF q.not_public # "yes" THEN "Cannot process public figure voices."
    ELSE IF q.consent # "yes" THEN "Consent checkbox must be checked."
    ELSE "OK"

Validate(q) ==
    IF ~q.hasFile THEN "No file part"
    ELSE IF q.filename = <<>> THEN "No selected file"
    ELSE IF ~allowed_file(q.filename) THEN "Invalid file type. Only wav/mp3 allowed."
    ELSE IF Len(q.text) = 0 \/ Len(q.text) > MaxTextLen
         THEN "Text is required and must be <= 500 chars."
    ELSE IF q.consent # "yes" THEN "Consent checkbox must be checked."
    ELSE IF q.not_public # "yes" THEN "Cannot process public figure voices."
    ELSE "OK"

\* filename of line 149
FileName(w) == secure_filename(req[w].filename)

Finish(w, kind, flashes, link) ==
    /\ pc' = [pc EXCEPT ![w] = "done"]
    /\ resp' = [resp EXCEPT ![w] = [kind |-> kind, flashes |-> flashes,
                                    generated_file |-> link]]

Did(w, event) == trace' = [trace EXCEPT ![w] = Append(@, event)]

\* GET /: the form is rendered
Get(w, q) ==
    /\ CanBegin(w)
    /\ q.method = "GET"
    /\ Take(w, q)
    /\ Finish(w, "page", <<>>, <<>>)
    /\ UNCHANGED << threaded, procVars, write_header, fileVars, engineVars >>

download_file_Consumes(w, q) ==
    /\ CanBegin(w)
    /\ q.method = "DOWNLOAD"
    /\ Take(w, q)
    /\ IF \E g \in generated : g.name = q.filename
       THEN Finish(w, "file", <<>>, q.filename)
       ELSE Finish(w, "notfound", <<>>, <<>>)
    /\ generated' = { g \in generated : g.name # q.filename }
    /\ UNCHANGED << threaded, procVars, write_header, uploads, ledgerExists, ledger,
                    wrote, engineVars >>

\* GET /generated/<filename>
download_file(w, q) ==
    /\ CanBegin(w)
    /\ q.method = "DOWNLOAD"
    /\ Take(w, q)
    /\ IF \E g \in generated : g.name = q.filename
       THEN Finish(w, "file", <<>>, q.filename)
       ELSE Finish(w, "notfound", <<>>, <<>>)
    /\ UNCHANGED << threaded, procVars, write_header, fileVars, engineVars >>

\* POST /, a check of lines 125-146 fails: flash and redirect
PostRejected(w, q) ==
    /\ CanBegin(w)
    /\ q.method = "POST"
    /\ Validate(q) # "OK"
    /\ Take(w, q)
    /\ Finish(w, "redirect", << <<Validate(q)>> >>, <<>>)
    /\ UNCHANGED << threaded, procVars, write_header, fileVars, engineVars >>

\* POST /, every check passes: the handler goes on to line 147
PostAccepted(w, q) ==
    /\ CanBegin(w)
    /\ q.method = "POST"
    /\ Validate(q) = "OK"
    /\ Take(w, q)
    /\ pc' = [pc EXCEPT ![w] = "save"]
    /\ resp' = [resp EXCEPT ![w] = NoResp]
    /\ UNCHANGED << threaded, procVars, write_header, fileVars, engineVars >>

Put_KeepBoth(files, f) == files \cup {f}

\* writing a file replaces the file of that name
Put(files, f) == { x \in files : x.name # f.name } \cup {f}

\* file.save(file_path), line 151
SaveUpload_SkipLog(w) ==
    /\ pc[w] = "save"
    /\ uploads' = Put(uploads, [name |-> FileName(w), audio |-> req[w].audio, req |-> id[w]])
    /\ Did(w, "save")
    /\ pc' = [pc EXCEPT ![w] = "extract"]
    /\ UNCHANGED << threaded, procVars, arrived, id, req, resp, write_header,
                    ledgerExists, ledger, generated, wrote, engineVars >>

SaveUpload(w) ==
    /\ pc[w] = "save"
    /\ uploads' = Put(uploads, [name |-> FileName(w), audio |-> req[w].audio, req |-> id[w]])
    /\ Did(w, "save")
    /\ pc' = [pc EXCEPT ![w] = "log_check"]
    /\ UNCHANGED << threaded, procVars, arrived, id, req, resp, write_header,
                    ledgerExists, ledger, generated, wrote, engineVars >>

SaveUploadFail_StillLogs(w) ==
    /\ pc[w] = "save"
    /\ Did(w, "save_fail")
    /\ pc' = [pc EXCEPT ![w] = "log_check"]
    /\ UNCHANGED << threaded, procVars, arrived, id, req, resp, write_header, fileVars,
                    engineVars >>

\* file.save raises (line 151 is outside the try): the exception leaves index
SaveUploadFail(w) ==
    /\ pc[w] = "save"
    /\ Did(w, "save_fail")
    /\ Finish(w, "unhandled", <<>>, <<>>)
    /\ UNCHANGED << threaded, procVars, arrived, id, req, write_header, fileVars,
                    engineVars >>

\* log_consent, line 109: write_header = not Path(CONSENT_LOG).exists()
LogCheck_AlwaysHeader(w) ==
    /\ pc[w] = "log_check"
    /\ write_header' = [write_header EXCEPT ![w] = TRUE]
    /\ pc' = [pc EXCEPT ![w] = "log_open"]
    /\ UNCHANGED << threaded, procVars, arrived, id, req, resp, trace, fileVars,
                    engineVars >>

LogCheck(w) ==
    /\ pc[w] = "log_check"
    /\ write_header' = [write_header EXCEPT ![w] = ~ledgerExists]
    /\ pc' = [pc EXCEPT ![w] = "log_open"]
    /\ UNCHANGED << threaded, procVars, arrived, id, req, resp, trace, fileVars,
                    engineVars >>

\* log_consent, line 110: open(CONSENT_LOG, "a") creates the file
LogOpen(w) ==
    /\ pc[w] = "log_open"
    /\ ledgerExists' = TRUE
    /\ pc' = [pc EXCEPT ![w] = "log_write"]
    /\ UNCHANGED << threaded, procVars, arrived, id, req, resp, trace, write_header,
                    uploads, ledger, generated, wrote, engineVars >>

\* open raises (line 152 is outside the try): the exception leaves index
LogOpenFail(w) ==
    /\ pc[w] = "log_open"
    /\ Did(w, "log_fail")
    /\ Finish(w, "unhandled", <<>>, <<>>)
    /\ write_header' = [write_header EXCEPT ![w] = FALSE]
    /\ UNCHANGED << threaded, procVars, arrived, id, req, fileVars, engineVars >>

\* log_consent, lines 111-114: the rows go to the file's buffer, which the
\* end of the with block writes to the file in one append
LogWrite(w) ==
    /\ pc[w] = "log_write"
    /\ ledger' = ledger \o (IF write_header[w] THEN <<Header>> ELSE <<>>)
                        \o << Row(id[w], req[w], FileName(w)) >>
    /\ Did(w, "log")
    /\ write_header' = [write_header EXCEPT ![w] = FALSE]
    /\ pc' = [pc EXCEPT ![w] = "extract"]
    /\ UNCHANGED << threaded, procVars, arrived, id, req, resp, uploads,
                    ledgerExists, generated, wrote, engineVars >>

\* the file preprocess_wav(file_path) reads
Reference(w) == CHOOSE u \in uploads : u.name = FileName(w)

\* lines 156-157 return
ExtractOK(w) ==
    /\ pc[w] = "extract"
    /\ Reference(w).audio = "good"
    /\ Did(w, "extract")
    /\ pc' = [pc EXCEPT ![w] = "synth"]
    /\ UNCHANGED << threaded, procVars, arrived, id, req, resp, write_header,
                    fileVars, engineVars >>

ErrorFlash(e) == << "Error during synthesis: ", e >>

ExtractFail_Continues(w, e) ==
    /\ pc[w] = "extract"
    /\ Reference(w).audio = "bad"
    /\ Did(w, "extract_fail")
    /\ pc' = [pc EXCEPT ![w] = "synth"]
    /\ UNCHANGED << threaded, procVars, arrived, id, req, resp, write_header,
                    fileVars, engineVars >>

ExtractFail_RollsBack(w, e) ==
    /\ pc[w] = "extract"
    /\ Reference(w).audio = "bad"
    /\ Did(w, "extract_fail")
    /\ Finish(w, "page", << ErrorFlash(e) >>, <<>>)
    /\ ledger' = SelectSeq(ledger, LAMBDA row : row.req # id[w])
    /\ UNCHANGED << threaded, procVars, arrived, id, req, write_header, uploads,
                    ledgerExists, generated, wrote, engineVars >>

\* lines 156-157 raise: the except of line 163 flashes, line 165 renders
ExtractFail(w, e) ==
    /\ pc[w] = "extract"
    /\ Reference(w).audio = "bad"
    /\ Did(w, "extract_fail")
    /\ Finish(w, "page", << ErrorFlash(e) >>, <<>>)
    /\ UNCHANGED << threaded, procVars, arrived, id, req, write_header, fileVars,
                    engineVars >>

\* the command of lines 158-160 and 118
Command(w) ==
    [ req |-> id[w], text |-> prepend_marker(req[w].text),
      name |-> output_name(FileName(w)) ]

\* generate_audio, line 118: tts_engine.save_to_file queues the command
SaveToFile(w) ==
    /\ pc[w] = "synth"
    /\ engineQueue' = Append(engineQueue, Command(w))
    /\ synthLog' = synthLog \cup { Command(w) }
    /\ Did(w, "synth")
    /\ pc' = [pc EXCEPT ![w] = "run"]
    /\ UNCHANGED << threaded, procVars, arrived, id, req, resp, write_header,
                    fileVars >>

Artifact(c) == [ name |-> c.name, content |-> c.text, req |-> c.req ]

\* the generated directory after the engine ran the commands cmds in order
RECURSIVE Written(_, _)
Written(files, cmds) ==
    IF cmds = <<>> THEN files
    ELSE Written(Put(files, Artifact(Head(cmds))), Tail(cmds))

Requesters(cmds) == { cmds[i].req : i \in 1..Len(cmds) }

\* generate_audio, line 119: runAndWait processes every queued command;
\* lines 161-162 and 165 follow
RunAndWaitOK(w) ==
    /\ pc[w] = "run"
    /\ generated' = Written(generated, engineQueue)
    /\ wrote' = wrote \cup Requesters(engineQueue)
    /\ engineQueue' = <<>>
    /\ Did(w, "run")
    /\ Finish(w, "page", << <<"Processing Done.">> >>, output_name(FileName(w)))
    /\ UNCHANGED << threaded, procVars, arrived, id, req, write_header, uploads,
                    ledgerExists, ledger, synthLog >>

RunAndWaitFail_StillLinks(w, k, stage, e) ==
    /\ pc[w] = "run"
    /\ k \in 1..Len(engineQueue)
    /\ generated' = Written(generated, SubSeq(engineQueue, 1, k - 1))
    /\ wrote' = wrote \cup Requesters(SubSeq(engineQueue, 1, k - 1))
    /\ engineQueue' = <<>>
    /\ Did(w, stage)
    /\ Finish(w, "page", << ErrorFlash(e) >>, output_name(FileName(w)))
    /\ UNCHANGED << threaded, procVars, arrived, id, req, write_header, uploads,
                    ledgerExists, ledger, synthLog >>

\* runAndWait raises at the k-th queued command, for the reason stage
\* ("synthesis_fail": the model fails, "storage_fail": the artifact cannot be
\* written): the commands before it are done, the rest are dropped; the
\* except of line 163 flashes, line 165 renders
RunAndWaitFail(w, k, stage, e) ==
    /\ pc[w] = "run"
    /\ k \in 1..Len(engineQueue)
    /\ generated' = Written(generated, SubSeq(engineQueue, 1, k - 1))
    /\ wrote' = wrote \cup Requesters(SubSeq(engineQueue, 1, k - 1))
    /\ engineQueue' = <<>>
    /\ Did(w, stage)
    /\ Finish(w, "page", << ErrorFlash(e) >>, <<>>)
    /\ UNCHANGED << threaded, procVars, arrived, id, req, write_header, uploads,
                    ledgerExists, ledger, synthLog >>

FailStages == {"synthesis_fail", "storage_fail"}

Next ==
    \/ StartupOK
    \/ StartupFailEncoder
    \/ StartupFailEngine
    \/ Restart
    \/ \E w \in Workers, q \in Samples : Get(w, q)
    \/ \E w \in Workers, q \in Samples : download_file(w, q)
    \/ \E w \in Workers, q \in Samples : PostRejected(w, q)
    \/ \E w \in Workers, q \in Samples : PostAccepted(w, q)
    \/ \E w \in Workers : SaveUpload(w)
    \/ \E w \in Workers : SaveUploadFail(w)
    \/ \E w \in Workers : LogCheck(w)
    \/ \E w \in Workers : LogOpen(w)
    \/ \E w \in Workers : LogOpenFail(w)
    \/ \E w \in Workers : LogWrite(w)
    \/ \E w \in Workers : ExtractOK(w)
    \/ \E w \in Workers, e \in Exceptions : ExtractFail(w, e)
    \/ \E w \in Workers : SaveToFile(w)
    \/ \E w \in Workers : RunAndWaitOK(w)
    \/ \E w \in Workers, k \in 1..MaxRequests, stage \in FailStages, e \in Exceptions :
           RunAndWaitFail(w, k, stage, e)

Spec == Init /\ [][Next]_vars

SpecSeq == InitSeq /\ [][Next]_vars

\* ------------------------------------------------------ what a request did

Has(w, event) == \E i \in 1..Len(trace[w]) : trace[w][i] = event

\* position of the first occurrence of event in w's trace, 0 when absent
Pos(w, event) ==
    LET at == { i \in 1..Len(trace[w]) : trace[w][i] = event }
    IN  IF at = {} THEN 0 ELSE CHOOSE i \in at : \A j \in at : i <= j

\* the ledger rows of request number n
RowIndexes(n) ==
    { i \in 1..Len(ledger) : ledger[i].kind = "row" /\ ledger[i].req = n }

RowsOf(n) == Cardinality(RowIndexes(n))

HeaderIndexes == { i \in 1..Len(ledger) : ledger[i].kind = "header" }

\* worker w holds a POST (in flight or answered)
Submitted(w) == id[w] # 0 /\ req[w].method = "POST"

Failed(w) ==
    Has(w, "extract_fail") \/ Has(w, "synthesis_fail") \/ Has(w, "storage_fail")

NoEffects(w) ==
    /\ trace[w] = <<>>
    /\ \A u \in uploads : u.req # id[w]
    /\ RowsOf(id[w]) = 0
    /\ \A c \in synthLog : c.req # id[w]
    /\ \A i \in 1..Len(engineQueue) : engineQueue[i].req # id[w]
    /\ \A g \in generated : g.req # id[w]
    /\ id[w] \notin wrote

IsPrefix(a, b) == Len(a) <= Len(b) /\ SubSeq(b, 1, Len(a)) = a

\* ----------------------------------------------------------------- claims

\* the rejections C1 lists, stated on the submitted fields
C1_Invalid(q) ==
    \/ ~q.hasFile
    \/ LastDot(q.filename) = 0
    \/ LowerSeq(Extension(q.filename)) \notin { <<"w","a","v">>, <<"m","p","3">> }
    \/ Len(q.text) = 0
    \/ Len(q.text) > 500
    \/ q.consent # "yes"
    \/ q.not_public # "yes"

\* C1: a POST that validation must reject (missing file, disallowed
\* extension, text of length 0 or above 500, consent or not_public not "yes")
\* ends redirected having saved no upload, appended no ledger row, made no
\* synthesis call and written no artifact.
C1_RejectedNoSideEffects ==
    \A w \in Workers :
        (Submitted(w) /\ C1_Invalid(req[w])) =>
            /\ pc[w] = "done"
            /\ resp[w].kind = "redirect"
            /\ NoEffects(w)

\* a rejected POST has been answered while another request's upload, ledger
\* row and artifact exist
C1_Witness ==
    \E w \in Workers :
        /\ Submitted(w) /\ C1_Invalid(req[w]) /\ pc[w] = "done"
        /\ uploads # {} /\ ledger # <<>> /\ generated # {}

Accepted(w) == Submitted(w) /\ ~C1_Invalid(req[w])

Attempted(w) == Has(w, "extract") \/ Has(w, "extract_fail") \/ Has(w, "synth")

C3_RecordsAndArtifacts ==
    /\ \A i \in 1..Len(ledger) :
           ledger[i].kind = "row" =>
               /\ ledger[i].req \in 1..arrived
               /\ \A w \in Workers : id[w] = ledger[i].req => Accepted(w)
    /\ \A g \in generated :
           \E i \in 1..Len(ledger) :
               /\ ledger[i].kind = "row"
               /\ g.name = ledger[i].uploaded_filename \o
                               << "_","s","y","n","t","h",".","w","a","v" >>

\* an artifact exists whose upload name needed sanitizing
C3_Witness ==
    \E g \in generated, w \in Workers :
        /\ id[w] = g.req
        /\ req[w].filename # FileName(w)
        /\ RowsOf(g.req) = 1

Blank(v) == v = None \/ v = ""

\* C4: a submission whose speaker_name or requester_email is empty or
\* missing is rejected: no upload saved, no ConsentRecord, no synthesis.
C4_NamesRequired ==
    \A w \in Workers :
        (Submitted(w) /\ (Blank(req[w].speaker_name) \/ Blank(req[w].requester_email))) =>
            /\ pc[w] = "done"
            /\ resp[w].kind = "redirect"
            /\ NoEffects(w)

C5_Disclosure ==
    << "S","Y","N","T","H","E","T","I","C"," ","V","O","I","C","E"," ",
       "emdash"," ","G","E","N","E","R","A","T","E","D","."," " >>

\* what was handed to the engine, or written, for the request worker w holds
C5_Exact(w, text) == text = C5_Disclosure \o req[w].text

\* C5: the text of every synthesis call, queued command and artifact begins
\* with the disclosure, and is the disclosure followed by the submitted text
\* of the request it was made for.
C5_DisclosurePrepended ==
    /\ \A c \in synthLog :
           /\ IsPrefix(C5_Disclosure, c.text)
           /\ \A w \in Workers : id[w] = c.req => C5_Exact(w, c.text)
    /\ \A i \in 1..Len(engineQueue) :
           /\ IsPrefix(C5_Disclosure, engineQueue[i].text)
           /\ \A w \in Workers : id[w] = engineQueue[i].req => C5_Exact(w, engineQueue[i].text)
    /\ \A g \in generated :
           /\ IsPrefix(C5_Disclosure, g.content)
           /\ \A w \in Workers : id[w] = g.req => C5_Exact(w, g.content)

\* an artifact was written for a text of the greatest accepted length
C5_Witness ==
    \E g \in generated, w \in Workers :
        id[w] = g.req /\ Len(req[w].text) = 500 /\ Len(g.content) = 529

\* what one step must do for C6
C6_Step ==
    /\ IsPrefix(ledger, ledger')
    /\ \A w \in Workers :
           (~Failed(w) /\ Failed(w)') =>
               /\ proc' = "serving"
               /\ RowsOf(id[w]) = 1
               /\ RowsOf(id[w])' = 1
               /\ pc'[w] = "done"
               /\ resp'[w].kind = "page"
               /\ \E e \in Exceptions :
                      resp'[w].flashes = << <<"Error during synthesis: ", e>> >>

\* C6: the step in which extraction or synthesis fails leaves the request's
\* ConsentRecord in the ledger, answers with a page carrying the error
\* message and leaves the process serving; no step of the system removes or
\* rewrites a row of the ledger (the ledger only grows at its end).
C6_FailureKeepsRecord == [][C6_Step]_vars

\* handled one at a time: synthesis failed for one request, and a later
\* request was served and appended its own record behind the first
C6_Witness ==
    \E w1, w2 \in Workers :
        /\ ~threaded /\ id[w1] # 0 /\ id[w1] < id[w2]
        /\ Has(w1, "synthesis_fail") /\ RowsOf(id[w1]) = 1
        /\ pc[w2] = "done" /\ Has(w2, "run") /\ RowsOf(id[w2]) = 1

\* C7: a request whose feature extraction failed never calls the synthesis
\* engine, has no command queued in it and has no artifact written for it.
C7_NoSynthesisAfterExtractionFailure ==
    \A w \in Workers :
        Has(w, "extract_fail") =>
            /\ ~Has(w, "synth") /\ ~Has(w, "run")
            /\ \A c \in synthLog : c.req # id[w]
            /\ \A i \in 1..Len(engineQueue) : engineQueue[i].req # id[w]
            /\ \A g \in generated : g.req # id[w]
            /\ id[w] \notin wrote
            /\ pc[w] = "done"

\* extraction failed for a request while the artifact of its upload name
\* exists, written for another request
C7_Witness ==
    \E w \in Workers :
        /\ Has(w, "extract_fail")
        /\ \E g \in generated : g.name = output_name(FileName(w)) /\ g.req # id[w]

\* C8: with requests handled one at a time, the ledger, once it has rows,
\* starts with the header, and the header occurs nowhere else.
C8_HeaderOnce ==
    ledger # <<>> => (ledger[1].kind = "header" /\ HeaderIndexes = {1})

\* two records, one appended before a restart of the process and one after
C8_Witness ==
    /\ ~threaded
    /\ \E i, j \in 1..Len(ledger) :
           /\ ledger[i].kind = "row" /\ ledger[i].req <= answeredBefore
           /\ ledger[j].kind = "row" /\ ledger[j].req > answeredBefore

\* C9: in every interleaving the ledger holds one header, first, and one
\* row for each request that has appended.
C9_AtomicAppend ==
    /\ Cardinality(HeaderIndexes) <= 1
    /\ ledger # <<>> => ledger[1].kind = "header"
    /\ \A w \in Workers : Has(w, "log") => RowsOf(id[w]) = 1

\* the stage whose failure ended the request of worker w
FailedStage(w) ==
    IF Has(w, "extract_fail") THEN "extraction"
    ELSE IF Has(w, "synthesis_fail") THEN "synthesis"
    ELSE IF Has(w, "storage_fail") THEN "storage"
    ELSE "none"

\* C10: requests that failed at different stages (extraction, synthesis,
\* writing the artifact) receive different outcomes.
C10_DistinctFailureKinds ==
    \A w1, w2 \in Workers :
        ( /\ FailedStage(w1) # "none"
          /\ FailedStage(w2) # "none"
          /\ FailedStage(w1) # FailedStage(w2) ) => resp[w1] # resp[w2]

\* a failure after validation ended the request of worker w
FailedAfterValidation(w) ==
    \/ Has(w, "save_fail") \/ Has(w, "log_fail")
    \/ Has(w, "extract_fail") \/ Has(w, "synthesis_fail") \/ Has(w, "storage_fail")

\* C11: a request in which saving the upload, appending to the ledger,
\* extraction, synthesis or writing the artifact failed is answered with a
\* rendered page carrying one error message, never with an exception that
\* left the handler.
C11_AllFailuresRecovered ==
    \A w \in Workers :
        FailedAfterValidation(w) =>
            /\ pc[w] = "done"
            /\ resp[w].kind = "page"
            /\ Len(resp[w].flashes) = 1

\* the artifacts stored under name
ArtifactsNamed(name) == { g \in generated : g.name = name }

\* two answered POSTs, the second taken after the first, whose uploads were
\* saved under the same sanitized name
C12_Resubmitted(w1, w2) ==
    /\ Accepted(w1) /\ Accepted(w2)
    /\ id[w1] < id[w2]
    /\ pc[w1] = "done" /\ pc[w2] = "done"
    /\ FileName(w1) = FileName(w2)

\* C12: handled one after the other, two accepted submissions of the same
\* sanitized filename that both ran to the end of synthesis leave two
\* ConsentRecords of that filename, and the one artifact <name>_synth.wav of
\* the output store holds the marked text of the second submission.
C12_OverwriteNotAppend ==
    \A w1, w2 \in Workers :
        (C12_Resubmitted(w1, w2) /\ Has(w1, "run") /\ Has(w2, "run")) =>
            /\ \E i, j \in 1..Len(ledger) :
                   /\ i < j
                   /\ ledger[i].kind = "row" /\ ledger[i].req = id[w1]
                   /\ ledger[j].kind = "row" /\ ledger[j].req = id[w2]
                   /\ ledger[i].uploaded_filename = FileName(w1)
                   /\ ledger[j].uploaded_filename = FileName(w1)
            /\ RowsOf(id[w1]) = 1 /\ RowsOf(id[w2]) = 1
            /\ Cardinality(ArtifactsNamed(FileName(w1) \o SynthSuffix)) = 1
            /\ \A g \in ArtifactsNamed(FileName(w1) \o SynthSuffix) :
                   /\ g.req = id[w2]
                   /\ g.content = C5_Disclosure \o req[w2].text

\* both submissions were synthesized, with different texts and upload names
\* that differ before sanitizing
C12_Witness ==
    \E w1, w2 \in Workers :
        /\ C12_Resubmitted(w1, w2) /\ Has(w1, "run") /\ Has(w2, "run")
        /\ req[w1].text # req[w2].text
        /\ req[w1].filename # req[w2].filename

\* the workers inside generate_audio: save_to_file has been called and
\* runAndWait has not returned
InEngine == { w \in Workers : pc[w] = "run" }

\* C13: in every interleaving at most one request is between the start of
\* save_to_file and the return of runAndWait.
C13_EngineSerialized == Cardinality(InEngine) <= 1

\* requests taken by the current run of the process
ServedThisRun == arrived - answeredBefore

\* C14: a process whose encoder or engine failed to initialize has served
\* no request and has none in flight; a process that has served a request or
\* has one in flight is serving and initialized its engine exactly once.
C14_StartupFatalInitOnce ==
    /\ proc \in {"aborted_encoder", "aborted_engine"} =>
           /\ ServedThisRun = 0
           /\ \A w \in Workers : ~InFlight(w)
    /\ (ServedThisRun > 0 \/ \E w \in Workers : InFlight(w)) =>
           /\ proc = "serving"
           /\ engineInits = 1
    /\ proc = "starting" => (engineInits = 0 /\ ServedThisRun = 0)

\* after a run that served a request, the next start of the process failed
\* at the engine
C14_Witness ==
    /\ proc = "aborted_engine"
    /\ answeredBefore > 0
    /\ \E w \in Workers : pc[w] = "done" /\ Has(w, "run")

\* the checks in the order C15 names, each with the message of its failure
C15_Checks(q) ==
    << [ bad |-> ~q.hasFile, msg |-> "No file part" ],
       [ bad |-> q.filename = <<>>, msg |-> "No selected file" ],
       [ bad |-> \/ LastDot(q.filename) = 0
                 \/ LowerSeq(Extension(q.filename)) \notin { <<"w","a","v">>, <<"m","p","3">> },
         msg |-> "Invalid file type. Only wav/mp3 allowed." ],
       [ bad |-> Len(q.text) = 0 \/ Len(q.text) > 500,
         msg |-> "Text is required and must be <= 500 chars." ],
       [ bad |-> q.consent # "yes", msg |-> "Consent checkbox must be checked." ],
       [ bad |-> q.not_public # "yes", msg |-> "Cannot process public figure voices." ] >>

C15_Violated(q) == { i \in 1..Len(C15_Checks(q)) : C15_Checks(q)[i].bad }

C15_First(q) == CHOOSE i \in C15_Violated(q) : \A j \in C15_Violated(q) : i <= j

\* C15: a POST that violates a check is redirected with exactly one
\* message, that of the first violated check in the order file present,
\* filename non-empty, extension, text length, consent, not_public; only
\* such a POST is redirected.
C15_FirstViolatedCheck ==
    \A w \in Workers :
        Submitted(w) =>
            /\ C15_Violated(req[w]) # {} =>
                   /\ pc[w] = "done"
                   /\ resp[w].kind = "redirect"
                   /\ resp[w].flashes = << << C15_Checks(req[w])[C15_First(req[w])].msg >> >>
            /\ resp[w].kind = "redirect" => C15_Violated(req[w]) # {}

\* a redirected POST violated two checks and was told the first only, the
\* missing consent
C15_Witness ==
    \E w \in Workers :
        /\ Submitted(w) /\ pc[w] = "done"
        /\ C15_Violated(req[w]) = {5, 6}
        /\ resp[w].flashes = << << "Consent checkbox must be checked." >> >>

\* how many times event occurs in the trace of worker w
Count(w, event) == Cardinality({ i \in 1..Len(trace[w]) : trace[w][i] = event })

Linked(w) == resp[w].generated_file # <<>>

\* C16: the answer to a POST carries a download link exactly when the
\* request's extraction and its synthesis call both returned, and the link
\* is the sanitized upload name followed by _synth.wav; a failed, a rejected
\* and an unanswered request carry none; no request calls the engine twice.
C16_LinkIffSynthesized ==
    \A w \in Workers :
        /\ Count(w, "synth") <= 1
        /\ Cardinality({ c \in synthLog : c.req = id[w] }) <= 1
        /\ Submitted(w) =>
              /\ Linked(w) <=> (pc[w] = "done" /\ Has(w, "extract") /\ Has(w, "run"))
              /\ Linked(w) =>
                     resp[w].generated_file =
                         secure_filename(req[w].filename) \o
                             << "_","s","y","n","t","h",".","w","a","v" >>
              /\ (FailedAfterValidation(w) \/ resp[w].kind = "redirect") => ~Linked(w)

\* one request was answered with its link, another's synthesis failed and
\* it was answered without one
C16_Witness ==
    \E w1, w2 \in Workers :
        /\ Submitted(w1) /\ pc[w1] = "done" /\ Linked(w1)
        /\ Submitted(w2) /\ pc[w2] = "done" /\ Has(w2, "synthesis_fail") /\ ~Linked(w2)

\* C17: the file a request's extraction reads is the upload of that request,
\* and extraction succeeds or fails as that request's own audio decides.
C17_ReadsOwnUpload ==
    \A w \in Workers :
        /\ pc[w] = "extract" => Reference(w).req = id[w]
        /\ Has(w, "extract") => req[w].audio = "good"
        /\ Has(w, "extract_fail") => req[w].audio = "bad"

\* C18: every ConsentRecord names a file present in the upload directory; a
\* request appends its record only after its upload was saved, and a request
\* whose save failed appends none.
C18_RecordHasUpload ==
    /\ \A i \in 1..Len(ledger) :
           ledger[i].kind = "row" =>
               \E u \in uploads : u.name = ledger[i].uploaded_filename
    /\ \A w \in Workers :
           /\ Has(w, "log") => (Has(w, "save") /\ Pos(w, "save") < Pos(w, "log"))
           /\ Has(w, "save_fail") => (~Has(w, "log") /\ RowsOf(id[w]) = 0)

\* a request's save failed and it was answered with no record, while the
\* ledger holds the record of another request
C18_Witness ==
    \E w \in Workers :
        /\ Has(w, "save_fail") /\ pc[w] = "done"
        /\ \E i \in 1..Len(ledger) : ledger[i].kind = "row"

\* worker w holds a GET of index or a request of the download endpoint
ReadOnly(w) == id[w] # 0 /\ req[w].method \in {"GET", "DOWNLOAD"}

\* what one step must do for C19
C19_Step ==
    \A w \in Workers :
        /\ (id'[w] # id[w] /\ req'[w].method \in {"GET", "DOWNLOAD"}) =>
               /\ UNCHANGED << ledgerExists, ledger, uploads, generated, wrote,
                               engineQueue, synthLog >>
               /\ pc'[w] = "done"
               /\ trace'[w] = <<>>
        /\ (ReadOnly(w) /\ id'[w] = id[w]) => trace'[w] = <<>>

\* C19: the step that handles a GET of index or a download request leaves
\* the ledger, the upload directory, the generated artifacts and the engine
\* as they were, and such a request never saves, logs, extracts or
\* synthesizes.
C19_ReadsLeaveStateUnchanged == [][C19_Step]_vars

\* an existing artifact was downloaded and is still there
C19_Witness ==
    \E w \in Workers :
        /\ ReadOnly(w) /\ req[w].method = "DOWNLOAD"
        /\ resp[w].kind = "file"
        /\ \E g \in generated : g.name = req[w].filename

====
